---- MODULE Spec2Model ----
(***************************************************************************)
(* Filesystem bucket backend (edgedb/lang/common/fs/backends.py):          *)
(* BaseFSBackend.__init__, FSBackend.escape_filename, _get_base_name,      *)
(* _get_path, _after_save, store_http_file, store_file, get_file_path and  *)
(* get_file_pub_url, over a small POSIX filesystem.                        *)
(*                                                                         *)
(* Strings are sequences of one-character strings.                         *)
(***************************************************************************)
EXTENDS Integers, Sequences, FiniteSets, TLC

VARIABLES
    fs,       \* path -> directory entry (lstat view); DOMAIN fs = existing paths
    inodes,   \* inode number -> [data, mode, dev] of a regular file
    backend,  \* the FSBackend object: [state, path, pub_path, umask]
    pc,       \* per task: where its store coroutine stands
    call,     \* per task: the locals of its suspended store_http_file call
    ret,      \* what the last step did: operation, arguments, outcome, syscalls
    input     \* the argument drawn for the pure path functions

vars == <<fs, inodes, backend, pc, call, ret, input>>

----------------------------------------------------------------------------
(* Strings *)

Rep(c, n) == [i \in 1..n |-> c]

\* F applied to the value of v, v being evaluated once
Bind(v, F(_)) == CHOOSE y \in {F(z) : z \in {v}} : TRUE

Min(a, b) == IF a < b THEN a ELSE b

\* s[:n] for n >= 0
Prefix(s, n) == SubSeq(s, 1, Min(n, Len(s)))

\* s[n:] for n >= 0 (0-based start)
Suffix(s, n) == SubSeq(s, n + 1, Len(s))

StartsWith(s, p) == Len(p) <= Len(s) /\ SubSeq(s, 1, Len(p)) = p

EndsWith(s, p) == Len(p) <= Len(s) /\ SubSeq(s, Len(s) - Len(p) + 1, Len(s)) = p

Contains(s, c) == \E i \in 1..Len(s) : s[i] = c

RECURSIVE LastIndexFrom(_, _, _)
LastIndexFrom(s, c, i) ==
    IF i = 0 THEN 0 ELSE IF s[i] = c THEN i ELSE LastIndexFrom(s, c, i - 1)

\* index of the last occurrence of c in s, 0 when there is none (s.rfind(c) + 1)
LastIndex(s, c) == LastIndexFrom(s, c, Len(s))

RECURSIVE SkipLeft(_, _, _)
\* the first index from i on whose character is not c (Len(s) + 1 when none)
SkipLeft(s, c, i) ==
    IF i > Len(s) THEN i ELSE IF s[i] # c THEN i ELSE SkipLeft(s, c, i + 1)

RECURSIVE SkipRight(_, _, _)
\* the last index up to i whose character is not c (0 when none)
SkipRight(s, c, i) ==
    IF i = 0 THEN 0 ELSE IF s[i] # c THEN i ELSE SkipRight(s, c, i - 1)

\* s.rpartition(c)[2]: what follows the last c (all of s when there is none)
rpartition_tail(s, c) == Suffix(s, LastIndex(s, c))

\* s.strip(c)
strip(s, c) == SubSeq(s, SkipLeft(s, c, 1), SkipRight(s, c, Len(s)))

\* posixpath.join(a, b)
os_path_join2(a, b) ==
    IF StartsWith(b, <<"/">>) THEN b
    ELSE IF a = <<>> \/ EndsWith(a, <<"/">>) THEN a \o b
    ELSE a \o <<"/">> \o b

RECURSIVE os_path_join(_)
\* posixpath.join(*parts)
os_path_join(parts) ==
    IF Len(parts) = 1 THEN parts[1]
    ELSE os_path_join2(os_path_join(SubSeq(parts, 1, Len(parts) - 1)), parts[Len(parts)])

\* s.rstrip(c)
rstrip(s, c) == SubSeq(s, 1, SkipRight(s, c, Len(s)))

\* posixpath.dirname(p)
os_path_dirname(p) ==
    LET head == Prefix(p, LastIndex(p, "/"))
    IN IF head # <<>> /\ SkipRight(head, "/", Len(head)) # 0 THEN rstrip(head, "/") ELSE head

\* posixpath.basename(p)
os_path_basename(p) == Suffix(p, LastIndex(p, "/"))

----------------------------------------------------------------------------
(* Object ids, buckets *)

\* uuid.UUID('12345678-1234-5678-1234-567812345678').hex
Id1 == <<"1", "2", "3", "4", "5", "6", "7", "8", "1", "2", "3", "4", "5", "6", "7", "8",
         "1", "2", "3", "4", "5", "6", "7", "8", "1", "2", "3", "4", "5", "6", "7", "8">>

\* uuid.UUID(int=1).hex
Id2 == <<"0", "0", "0", "0", "0", "0", "0", "0", "0", "0", "0", "0", "0", "0", "0", "0",
         "0", "0", "0", "0", "0", "0", "0", "0", "0", "0", "0", "0", "0", "0", "0", "1">>

\* An object id is identified with its 32-digit hex form.
Ids == {Id1, Id2}

id_hex(id) == id

\* base64.b32encode(hashlib.md5(id.bytes).digest()).decode('ascii'), tabulated
\* for the ids of the model
b32_md5(id) ==
    CASE id = Id1 -> <<"W", "6", "X", "X", "H", "Q", "E", "F", "Q", "Z", "J", "N", "E", "F", "H", "D",
                       "I", "E", "P", "W", "C", "E", "Q", "2", "Y", "A", "=", "=", "=", "=", "=", "=">>
      [] id = Id2 -> <<"Z", "5", "A", "E", "3", "S", "A", "G", "C", "6", "G", "C", "I", "W", "2", "3",
                       "J", "7", "R", "F", "G", "H", "T", "N", "R", "Q", "=", "=", "=", "=", "=", "=">>

\* str(bucket.id) of the one bucket of the model
Bucket42 == <<"4", "2">>

Buckets == {Bucket42}

----------------------------------------------------------------------------
(* FSBackend: the pure path functions *)

\* Characters that Python's \w matches (str pattern, so Unicode letters and
\* digits count), among the characters of the model. "U+00E9" is the one
\* character e-acute.
WordChars == {"a", "b", "c", "t", "x", "7", "_", "U+00E9"}

\* FSBackend._re_escape = re.compile(r'[^\w\-\._]'): one character that is
\* neither a word character nor '-', '.', '_'
_re_escape(c) == c \notin WordChars /\ c \notin {"-", ".", "_"}

RECURSIVE SkipMatches(_, _)
\* the first index from i on whose character the pattern does not match
SkipMatches(s, i) == IF i > Len(s) THEN i ELSE IF ~_re_escape(s[i]) THEN i ELSE SkipMatches(s, i + 1)

RECURSIVE re_sub_runs(_)
\* as if the pattern were [^\w\-\._]+ : a run of matches becomes one '_'
re_sub_runs(s) ==
    IF s = <<>> THEN <<>>
    ELSE IF _re_escape(s[1])
    THEN <<"_">> \o re_sub_runs(SubSeq(s, SkipMatches(s, 1), Len(s)))
    ELSE <<s[1]>> \o re_sub_runs(Tail(s))

\* _re_escape.sub('_', s): every match (a single character) becomes '_'
re_sub(s) == [i \in 1..Len(s) |-> IF _re_escape(s[i]) THEN "_" ELSE s[i]]

escape_filename(filename) == strip(re_sub(filename), "-")

_FN_LEN_LIMIT == 75

\* as if the dot were not counted when the room for the stem is computed
bounded_name_no_dot(id, filename0) ==
    LET filename == id_hex(id) \o <<"_">> \o filename0
        extension == rpartition_tail(filename, ".")
    IN IF Len(filename) > _FN_LEN_LIMIT
       THEN IF Contains(filename, ".") /\ _FN_LEN_LIMIT - Len(extension) > 0
            THEN Prefix(filename, _FN_LEN_LIMIT - Len(extension)) \o <<".">> \o extension
            ELSE Prefix(filename, _FN_LEN_LIMIT)
       ELSE filename

\* lines 89-101 of _get_base_name: the stored file name
bounded_name(id, filename0) ==
    LET base_filename == id_hex(id) \o <<"_">>
        filename == base_filename \o filename0
    IN IF Len(filename) > _FN_LEN_LIMIT
       THEN IF Contains(filename, ".")
            THEN LET extension == rpartition_tail(filename, ".")
                     limit == _FN_LEN_LIMIT - Len(extension) - 1
                 IN IF limit <= 0
                    THEN Prefix(filename, _FN_LEN_LIMIT)
                    ELSE Prefix(filename, limit) \o <<".">> \o extension
            ELSE Prefix(filename, _FN_LEN_LIMIT)
       ELSE filename

_get_base_name(bucket, id, filename) ==
    LET base == bucket
        new_id == b32_md5(id)
    IN os_path_join(<<base, SubSeq(new_id, 1, 2), SubSeq(new_id, 3, 4), bounded_name(id, filename)>>)

----------------------------------------------------------------------------
(* The filesystem: a world w = [fs, inodes] and the system calls on it.     *)
(* Every call returns [w |-> the world after it, err |-> "" or the errno].  *)
(* Symbolic links occur as last path components only.                       *)

NoEntry == [type |-> "none", ino |-> 0, target |-> <<>>, mode |-> 0]

DirEntry(mode) == [type |-> "dir", ino |-> 0, target |-> <<>>, mode |-> mode]

FileEntry(ino) == [type |-> "file", ino |-> ino, target |-> <<>>, mode |-> 0]

LinkEntry(target) == [type |-> "link", ino |-> 0, target |-> target, mode |-> 0]

\* the mount point of the second device; everything else is on device 0
MntDir == <<"/", "m">>

Dev(p) == IF StartsWith(p, MntDir) THEN 1 ELSE 0

\* lstat(p)
Lstat(w, p) == IF p \in DOMAIN w.fs THEN w.fs[p] ELSE NoEntry

RECURSIVE ResolveHops(_, _, _)
ResolveHops(w, p, hops) ==
    IF Lstat(w, p).type = "link" /\ hops > 0 THEN ResolveHops(w, Lstat(w, p).target, hops - 1)
    ELSE p

\* the path that p names once the symbolic links at its end are followed
Resolve(w, p) == ResolveHops(w, p, 8)

\* stat(p): NoEntry for a missing path, a dangling link or a link loop
Stat(w, p) == Bind(Lstat(w, Resolve(w, p)), LAMBDA e : IF e.type = "link" THEN NoEntry ELSE e)

os_path_exists(w, p) == Stat(w, p).type # "none"

os_path_islink(w, p) == Lstat(w, p).type = "link"

os_path_isfile(w, p) == Stat(w, p).type = "file"

Without(f, k) == [x \in DOMAIN f \ {k} |-> f[x]]

With(f, k, v) == [x \in DOMAIN f \cup {k} |-> IF x = k THEN v ELSE f[x]]

\* drop the inodes that no directory entry names any more
Collect(fs1, inodes1) ==
    [i \in {j \in DOMAIN inodes1 : \E q \in DOMAIN fs1 : fs1[q].type = "file" /\ fs1[q].ino = j}
        |-> inodes1[i]]

FreshIno(w) == CHOOSE i \in 1..(Cardinality(DOMAIN w.inodes) + 1) : i \notin DOMAIN w.inodes

\* os.unlink(p), which is os.remove(p)
os_unlink(w, p) ==
    IF Lstat(w, p).type = "none" THEN [w |-> w, err |-> "ENOENT"]
    ELSE IF Lstat(w, p).type = "dir" THEN [w |-> w, err |-> "EISDIR"]
    ELSE Bind(Without(w.fs, p), LAMBDA fs1 : [w |-> [fs |-> fs1, inodes |-> Collect(fs1, w.inodes)], err |-> ""])

\* os.mkdir(p, mode); the process owns what it creates, so it may write into
\* the parent when the owner's write bit is set (128 = 0o200)
os_mkdir(w, p, mode) ==
    Bind(Stat(w, os_path_dirname(p)), LAMBDA parent :
        IF Lstat(w, p).type # "none" THEN [w |-> w, err |-> "EEXIST"]
        ELSE IF parent.type = "none" THEN [w |-> w, err |-> "ENOENT"]
        ELSE IF parent.type # "dir" THEN [w |-> w, err |-> "ENOTDIR"]
        ELSE IF (parent.mode \div 128) % 2 = 0 THEN [w |-> w, err |-> "EACCES"]
        ELSE [w |-> [w EXCEPT !.fs = With(w.fs, p, DirEntry(mode))], err |-> ""])

RECURSIVE os_makedirs(_, _, _)
\* os.makedirs(p, mode=mode, exist_ok=True)
os_makedirs(w, p, mode) ==
    IF Stat(w, p).type = "dir" THEN [w |-> w, err |-> ""]
    ELSE Bind(os_path_dirname(p), LAMBDA head :
             IF head # p /\ Stat(w, head).type = "none"
             THEN Bind(os_makedirs(w, head, mode), LAMBDA up :
                      IF up.err # "" THEN up ELSE os_mkdir(up.w, p, mode))
             ELSE os_mkdir(w, p, mode))

\* os.link(src, dst); fault is the error the filesystem raises on its own
\* account ("" for none)
os_link(w, src, dst, fault) ==
    IF Lstat(w, src).type = "none" THEN [w |-> w, err |-> "ENOENT"]
    ELSE IF Lstat(w, dst).type # "none" THEN [w |-> w, err |-> "EEXIST"]
    ELSE IF Stat(w, os_path_dirname(dst)).type # "dir" THEN [w |-> w, err |-> "ENOENT"]
    ELSE IF Dev(src) # Dev(dst) THEN [w |-> w, err |-> "EXDEV"]
    ELSE IF fault # "" THEN [w |-> w, err |-> fault]
    ELSE [w |-> [w EXCEPT !.fs = With(w.fs, dst, Lstat(w, src))], err |-> ""]

\* open(p, 'wb').write(data): creates the file (with create_mode) or
\* truncates it in place, through symbolic links
write_file(w, p, data, create_mode) ==
    Bind(Resolve(w, p), LAMBDA q :
    Bind(Lstat(w, q), LAMBDA e :
        IF e.type = "dir" THEN [w |-> w, err |-> "EISDIR"]
        ELSE IF e.type = "link" THEN [w |-> w, err |-> "ELOOP"]
        ELSE IF e.type = "file"
        THEN [w |-> [w EXCEPT !.inodes[e.ino].data = data], err |-> ""]
        ELSE IF Stat(w, os_path_dirname(q)).type # "dir" THEN [w |-> w, err |-> "ENOENT"]
        ELSE Bind(FreshIno(w), LAMBDA i :
                 [w |-> [fs |-> With(w.fs, q, FileEntry(i)),
                         inodes |-> With(w.inodes, i, [data |-> data, mode |-> create_mode, dev |-> Dev(q)])],
                  err |-> ""])))

\* os.chmod(p, mode): the kernel keeps the low twelve bits of mode
os_chmod(w, p, mode) ==
    Bind(Stat(w, p), LAMBDA e :
        IF e.type = "none" THEN [w |-> w, err |-> "ENOENT"]
        ELSE IF e.type = "dir" THEN [w |-> [w EXCEPT !.fs[Resolve(w, p)].mode = mode % 4096], err |-> ""]
        ELSE [w |-> [w EXCEPT !.inodes[e.ino].mode = mode % 4096], err |-> ""])

\* shutil.copy(src, dst): copyfile, then copymode; a new file gets the
\* process's default mode (420 = 0o644) before copymode
shutil_copy(w, src, dst) ==
    Bind(IF Stat(w, dst).type = "dir" THEN os_path_join2(dst, os_path_basename(src)) ELSE dst, LAMBDA to :
    Bind(Stat(w, src), LAMBDA s :
        IF s.type # "file" THEN [w |-> w, err |-> "ENOENT"]
        ELSE IF Stat(w, to).type = "file" /\ Stat(w, to).ino = s.ino THEN [w |-> w, err |-> "SameFileError"]
        ELSE Bind(write_file(w, to, w.inodes[s.ino].data, 420), LAMBDA wr :
                 IF wr.err # "" THEN wr ELSE os_chmod(wr.w, to, w.inodes[s.ino].mode))))

----------------------------------------------------------------------------
(* The backend's operations, as functions of the world.  Each returns       *)
(* [w, exc, path, trace, pc]: the world after it, the exception it raises   *)
(* (NoExc for none), the destination path it derived, the system calls it   *)
(* made in order, and where the coroutine stands afterwards.                *)

NoExc == [type |-> "none", arg |-> ""]

BackendError(msg) == [type |-> "BackendError", arg |-> msg]

OSError(errno) == [type |-> "OSError", arg |-> errno]

\* the name argument left at its default
None == <<"None">>

NoPath == <<>>

Result(w, exc, path, trace, at) == [w |-> w, exc |-> exc, path |-> path, trace |-> trace, pc |-> at]

\* BaseFSBackend.__init__ followed by FSBackend.__init__; umask is the
\* configured value (the node default when the configuration leaves it
\* unset); 511 = 0o777.  Returns [r, self], self.state telling whether the
\* object was constructed.
__init__(w, path, pub_path, umask, auto_create_path) ==
    Bind([path |-> path, pub_path |-> pub_path, umask |-> umask], LAMBDA obj :
        IF ~os_path_exists(w, path)
        THEN Bind(IF auto_create_path THEN os_mkdir(w, path, 511 - umask) ELSE [w |-> w, err |-> ""], LAMBDA mk :
             Bind(IF auto_create_path THEN <<"exists", "mkdir">> ELSE <<"exists">>, LAMBDA tr :
                 IF mk.err # ""
                 THEN [r |-> Result(mk.w, OSError(mk.err), path, tr, "idle"), self |-> obj @@ [state |-> "none"]]
                 ELSE IF ~os_path_exists(mk.w, path)
                 THEN [r |-> Result(mk.w, BackendError("unable to create directory"), path,
                                    tr \o <<"exists">>, "idle"),
                       self |-> obj @@ [state |-> "none"]]
                 ELSE [r |-> Result(mk.w, NoExc, path, tr \o <<"exists">>, "idle"),
                       self |-> obj @@ [state |-> "ready"]]))
        ELSE [r |-> Result(w, NoExc, path, <<"exists">>, "idle"), self |-> obj @@ [state |-> "ready"]])

\* lines 118-120 of _get_path; tr is the trace so far
_get_path_dirs(w, self, path, tr) ==
    Bind(os_makedirs(w, os_path_dirname(path), 511 - self.umask), LAMBDA mk :
        IF mk.err # "" THEN Result(mk.w, OSError(mk.err), path, tr \o <<"makedirs">>, "idle")
        ELSE Result(mk.w, NoExc, path, tr \o <<"makedirs">>, "idle"))

_get_path(w, self, bucket, id, filename, allow_rewrite) ==
    Bind(os_path_join2(self.path, _get_base_name(bucket, id, escape_filename(filename))), LAMBDA path :
        IF os_path_exists(w, path)
        THEN IF allow_rewrite
             THEN Bind(IF os_path_islink(w, path) THEN <<"exists", "islink", "unlink">>
                       ELSE <<"exists", "islink", "remove">>, LAMBDA tr :
                  Bind(os_unlink(w, path), LAMBDA rm :
                      IF rm.err # "" THEN Result(rm.w, OSError(rm.err), path, tr, "idle")
                      ELSE _get_path_dirs(rm.w, self, path, tr)))
             ELSE Result(w, BackendError("file names collision"), path, <<"exists">>, "idle")
        ELSE _get_path_dirs(w, self, path, <<"exists">>))

\* 438 = 0o666
_after_save(w, self, path) == os_chmod(w, path, 438 - self.umask)

\* line 153 of store_file, line 133 of store_http_file: _after_save and the
\* return; tr is the trace so far
finish_store(w, self, path, tr) ==
    Bind(_after_save(w, self, path), LAMBDA ch :
        IF ch.err # "" THEN Result(ch.w, OSError(ch.err), path, tr \o <<"chmod">>, "idle")
        ELSE Result(ch.w, NoExc, path, tr \o <<"chmod">>, "idle"))

\* as if every OSError of the link were answered with a copy
link_or_copy_any_error(w, self, filename, path, tr, fault) ==
    Bind(os_link(w, filename, path, fault), LAMBDA ln :
        IF ln.err = "" THEN finish_store(ln.w, self, path, tr \o <<"link">>)
        ELSE Bind(shutil_copy(ln.w, filename, path), LAMBDA cp :
                 IF cp.err # "" THEN Result(cp.w, OSError(cp.err), path, tr \o <<"link", "copy">>, "idle")
                 ELSE finish_store(cp.w, self, path, tr \o <<"link", "copy">>)))

\* lines 145-151 of store_file: the hard link, and the copy when the link
\* fails with EXDEV
link_or_copy(w, self, filename, path, tr, fault) ==
    Bind(os_link(w, filename, path, fault), LAMBDA ln :
        IF ln.err = "" THEN finish_store(ln.w, self, path, tr \o <<"link">>)
        ELSE IF ln.err = "EXDEV"
        THEN Bind(shutil_copy(ln.w, filename, path), LAMBDA cp :
                 IF cp.err # "" THEN Result(cp.w, OSError(cp.err), path, tr \o <<"link", "copy">>, "idle")
                 ELSE finish_store(cp.w, self, path, tr \o <<"link", "copy">>))
        ELSE Result(ln.w, OSError(ln.err), path, tr \o <<"link">>, "idle"))

\* as if store_file yielded the copy or link and went on after a resume
store_file_yields(w, self, bucket, id, filename, name, allow_rewrite, fault) ==
    IF ~os_path_isfile(w, filename)
    THEN Result(w, BackendError("unable to locate file"), NoPath, <<"isfile">>, "idle")
    ELSE Bind(_get_path(w, self, bucket, id,
                        IF name = None THEN os_path_basename(filename) ELSE name, allow_rewrite), LAMBDA gp :
             IF gp.exc # NoExc THEN [gp EXCEPT !.trace = <<"isfile">> \o gp.trace]
             ELSE Result(gp.w, NoExc, gp.path, <<"isfile">> \o gp.trace, "save_to"))

\* store_file has no yield: it runs to its end in the step that calls it
store_file(w, self, bucket, id, filename, name, allow_rewrite, fault) ==
    IF ~os_path_isfile(w, filename)
    THEN Result(w, BackendError("unable to locate file"), NoPath, <<"isfile">>, "idle")
    ELSE Bind(_get_path(w, self, bucket, id,
                        IF name = None THEN os_path_basename(filename) ELSE name, allow_rewrite), LAMBDA gp :
             IF gp.exc # NoExc THEN [gp EXCEPT !.trace = <<"isfile">> \o gp.trace]
             ELSE link_or_copy(gp.w, self, filename, gp.path, <<"isfile">> \o gp.trace, fault))

\* what is handed to store_http_file in place of an http_types.File
NotAFile == [filename |-> <<>>, data |-> "", is_file |-> FALSE]

\* store_http_file up to its yield: the type check, _get_path, and the call
\* of file.save_to(path), whose result the coroutine yields
store_http_file(w, self, bucket, id, file, allow_rewrite) ==
    IF ~file.is_file
    THEN Result(w, BackendError("unsupported file object"), NoPath, <<>>, "idle")
    ELSE Bind(_get_path(w, self, bucket, id, file.filename, allow_rewrite), LAMBDA gp :
             IF gp.exc # NoExc THEN gp
             ELSE Result(gp.w, NoExc, gp.path, gp.trace \o <<"yield save_to">>, "save_to"))

\* http_types.File.save_to(path), run by the scheduler while the caller is
\* suspended: the uploaded bytes are written at path (420 = 0o644, the
\* process's default mode for a new file)
save_to(w, file, path) ==
    Bind(write_file(w, path, file.data, 420), LAMBDA wr :
        IF wr.err # "" THEN Result(wr.w, OSError(wr.err), path, <<"write">>, "idle")
        ELSE Result(wr.w, NoExc, path, <<"write">>, "after_save"))

\* store_http_file from its yield on: _after_save(path)
store_http_file_resume(w, self, path) == finish_store(w, self, path, <<>>)

get_file_path(self, bucket, id, filename) ==
    os_path_join2(self.path, _get_base_name(bucket, id, escape_filename(filename)))

\* as if the public URL were derived from the raw file name
get_file_pub_url_raw(self, bucket, id, filename) ==
    os_path_join2(self.pub_path, _get_base_name(bucket, id, filename))

get_file_pub_url(self, bucket, id, filename) ==
    os_path_join2(self.pub_path, _get_base_name(bucket, id, escape_filename(filename)))

----------------------------------------------------------------------------
(* The state machine: one backend, cooperative tasks calling it, and the    *)
(* owner of the source files editing them.                                  *)

\* cooperative tasks that may call the backend concurrently
NumTasks == 2

Tasks == 1..NumTasks

RootParent == <<"/", "v">>

RootPath == <<"/", "v", "/", "r">>

PubPath == <<"/", "p", "u", "b">>

SrcDir == <<"/", "s">>

\* a source file on the device of the storage root
SrcA == <<"/", "s", "/", "a", ".", "t", "x", "t">>

\* a source file on another device
SrcB == <<"/", "m", "/", "b", " ", "c">>

\* no such file
SrcNone == <<"/", "s", "/", "n", "o", "n", "e">>

\* the missing target of a dangling symbolic link
Gone == <<"/", "s", "/", "g", "o", "n", "e">>

SourcePaths == {SrcA, SrcB, SrcNone, SrcDir}

NameA == <<"a", ".", "t", "x", "t">>

\* the object ids stored under in the state machine
StoreIds == {Id1}

HttpFiles == {[filename |-> NameA, data |-> "H", is_file |-> TRUE]}

\* errors of os.link that the filesystem raises on its own account
LinkFaults == {"", "EPERM"}

\* 493 = 0o755, 384 = 0o600
BaseWorld ==
    [fs |-> (<<"/">> :> DirEntry(493)) @@ (SrcDir :> DirEntry(493)) @@ (MntDir :> DirEntry(493))
            @@ (SrcA :> FileEntry(1)) @@ (SrcB :> FileEntry(2)),
     inodes |-> (1 :> [data |-> "A", mode |-> 384, dev |-> 0])
                @@ (2 :> [data |-> "B", mode |-> 384, dev |-> 1])]

WithEntry(w, p, e) == [w EXCEPT !.fs = With(w.fs, p, e)]

\* the destination of (Bucket42, Id1, NameA) under RootPath
DestA == os_path_join2(RootPath, _get_base_name(Bucket42, Id1, escape_filename(NameA)))

\* the root's parent present with mode m, the root missing
ParentWorld(m) == WithEntry(BaseWorld, RootParent, DirEntry(m))

\* the root present and empty
RootWorld == WithEntry(ParentWorld(493), RootPath, DirEntry(493))

\* the root holding a symbolic link to target where a file will be stored
LinkWorld(target) ==
    WithEntry(os_makedirs(RootWorld, os_path_dirname(DestA), 493).w, DestA, LinkEntry(target))

\* the worlds a backend may be constructed in: the root's parent missing,
\* present (writable or not, 365 = 0o555), the root present, and the root
\* holding a symbolic link, live or dangling, at a destination
InitWorlds ==
    {BaseWorld, ParentWorld(493), ParentWorld(365), RootWorld, LinkWorld(SrcA), LinkWorld(Gone)}

\* what ret keeps of a call's arguments: the object id, the logical file
\* name, allow_rewrite (auto_create_path for __init__) and the bytes to store
NoArgs == [id |-> <<>>, filename |-> <<>>, allow_rewrite |-> FALSE, data |-> ""]

NoCall == [path |-> NoPath, file |-> NotAFile]

NoResult == [w |-> <<>>, exc |-> NoExc, path |-> NoPath, trace |-> <<>>, pc |-> "idle"]

Ret(op, step, args, r, value) ==
    [op |-> op, step |-> step, args |-> args, exc |-> r.exc, path |-> r.path,
     trace |-> r.trace, value |-> value]

NoRet == Ret("none", "none", NoArgs, NoResult, NoPath)

NoInput == [kind |-> "none", id |-> <<>>, filename |-> <<>>]

World == [fs |-> fs, inodes |-> inodes]

\* the configured umask of the state machine: 18 = 0o022
Backend(state, pub_path, umask) == [state |-> state, path |-> RootPath, pub_path |-> pub_path, umask |-> umask]

Init ==
    /\ \E w \in InitWorlds : fs = w.fs /\ inodes = w.inodes
    /\ backend = Backend("none", PubPath, 18)
    /\ pc = [t \in Tasks |-> "idle"]
    /\ call = [t \in Tasks |-> NoCall]
    /\ ret = NoRet
    /\ input = NoInput

\* FSBackend(path=..., pub_path=...)
Construct(auto_create_path) ==
    /\ backend.state = "none"
    /\ \E c \in {__init__(World, backend.path, backend.pub_path, backend.umask, auto_create_path)} :
          /\ fs' = c.r.w.fs
          /\ inodes' = c.r.w.inodes
          /\ backend' = c.self
          /\ ret' = Ret("__init__", "call", [NoArgs EXCEPT !.allow_rewrite = auto_create_path], c.r, NoPath)
    /\ UNCHANGED <<pc, call, input>>

StoreFile(t, id, filename, name, allow_rewrite, fault) ==
    /\ backend.state = "ready"
    /\ pc[t] = "idle"
    /\ \E r \in {store_file(World, backend, Bucket42, id, filename, name, allow_rewrite, fault)},
          data \in {IF os_path_isfile(World, filename) THEN inodes[Stat(World, filename).ino].data ELSE ""},
          name1 \in {IF name = None THEN os_path_basename(filename) ELSE name} :
          /\ fs' = r.w.fs
          /\ inodes' = r.w.inodes
          /\ pc' = [pc EXCEPT ![t] = r.pc]
          /\ ret' = Ret("store_file", "call",
                        [id |-> id, filename |-> name1, allow_rewrite |-> allow_rewrite, data |-> data],
                        r, filename)
    /\ UNCHANGED <<backend, call, input>>

StoreHttpFile(t, id, file, allow_rewrite) ==
    /\ backend.state = "ready"
    /\ pc[t] = "idle"
    /\ \E r \in {store_http_file(World, backend, Bucket42, id, file, allow_rewrite)} :
          /\ fs' = r.w.fs
          /\ inodes' = r.w.inodes
          /\ pc' = [pc EXCEPT ![t] = r.pc]
          /\ call' = [call EXCEPT ![t] = IF r.pc = "idle" THEN NoCall ELSE [path |-> r.path, file |-> file]]
          /\ ret' = Ret("store_http_file", "call",
                        [id |-> id, filename |-> file.filename, allow_rewrite |-> allow_rewrite,
                         data |-> file.data], r, NoPath)
    /\ UNCHANGED <<backend, input>>

\* the scheduler runs file.save_to(path) for a suspended store_http_file
SaveTo(t) ==
    /\ pc[t] = "save_to"
    /\ \E r \in {save_to(World, call[t].file, call[t].path)} :
          /\ fs' = r.w.fs
          /\ inodes' = r.w.inodes
          /\ pc' = [pc EXCEPT ![t] = r.pc]
          /\ call' = [call EXCEPT ![t] = IF r.pc = "idle" THEN NoCall ELSE call[t]]
          /\ ret' = Ret("store_http_file", "save_to", [NoArgs EXCEPT !.data = call[t].file.data], r, NoPath)
    /\ UNCHANGED <<backend, input>>

\* the scheduler resumes store_http_file after its yield
Resume(t) ==
    /\ pc[t] = "after_save"
    /\ \E r \in {store_http_file_resume(World, backend, call[t].path)} :
          /\ fs' = r.w.fs
          /\ inodes' = r.w.inodes
          /\ pc' = [pc EXCEPT ![t] = r.pc]
          /\ call' = [call EXCEPT ![t] = NoCall]
          /\ ret' = Ret("store_http_file", "resume", NoArgs, r, NoPath)
    /\ UNCHANGED <<backend, input>>

\* the owner of a source file rewrites it in place; ret keeps describing the
\* backend's last step
ModifySource(src) ==
    /\ os_path_isfile(World, src)
    /\ inodes[Stat(World, src).ino].data # "M"
    /\ inodes' = [inodes EXCEPT ![Stat(World, src).ino].data = "M"]
    /\ UNCHANGED <<fs, backend, pc, call, ret, input>>

\* one caller at a time: every call is awaited before the next is made
Next ==
    \/ \E a \in BOOLEAN : Construct(a)
    \/ \E id \in StoreIds, f \in SourcePaths, n \in {None, NameA}, a \in BOOLEAN, e \in LinkFaults :
          StoreFile(1, id, f, n, a, e)
    \/ \E id \in StoreIds, f \in HttpFiles \cup {NotAFile}, a \in BOOLEAN : StoreHttpFile(1, id, f, a)
    \/ SaveTo(1)
    \/ Resume(1)
    \/ \E src \in {SrcA, SrcB} : ModifySource(src)

Spec == Init /\ [][Next]_vars

----------------------------------------------------------------------------
(* The pure path functions on their own: Init draws the argument, the       *)
(* actions apply escape_filename and _get_base_name to it.                  *)

\* longest raw file name handed to escape_filename
MaxRawLen == 4

\* longest stem (the part before the extension) of a generated file name
MaxStem == 54

\* longest extension of a generated file name
MaxExt == 76

\* the characters raw file names are made of: a letter, a non-ASCII letter,
\* the three characters the pattern spares, and two it does not
RawChars == {"a", "U+00E9", "_", ".", "-", "/", " "}

RawNamesUpTo(n) == UNION {[1..k -> RawChars] : k \in 0..n}

\* sanitized file names by shape: no dot, a stem and an extension, or a stem
\* with a dot of its own before the extension
GenName(shape, i, j) ==
    CASE shape = "plain" -> Rep("a", i) \o Rep("b", j)
      [] shape = "ext" -> Rep("a", i) \o <<".">> \o Rep("b", j)
      [] shape = "dotted" -> Rep("a", i \div 2) \o <<".">> \o Rep("a", i - (i \div 2)) \o <<".">> \o Rep("b", j)

NameInputs ==
    [kind : {"raw"}, id : {Id1}, filename : RawNamesUpTo(MaxRawLen)]
    \cup {[kind |-> "sanitized", id |-> id, filename |-> GenName(shape, i, j)] :
            id \in Ids, shape \in {"plain", "ext", "dotted"}, i \in 0..MaxStem, j \in 0..MaxExt}

InitName ==
    /\ fs = RootWorld.fs
    /\ inodes = RootWorld.inodes
    /\ backend = Backend("ready", PubPath, 18)
    /\ pc = [t \in Tasks |-> "idle"]
    /\ call = [t \in Tasks |-> NoCall]
    /\ ret = NoRet
    /\ input \in NameInputs

EscapeFilename ==
    /\ input.kind = "raw"
    /\ ret' = Ret("escape_filename", "call", [NoArgs EXCEPT !.filename = input.filename], NoResult,
                  escape_filename(input.filename))
    /\ UNCHANGED <<fs, inodes, backend, pc, call, input>>

GetBaseName ==
    /\ input.kind = "sanitized"
    /\ ret' = Ret("_get_base_name", "call", [NoArgs EXCEPT !.id = input.id, !.filename = input.filename],
                  NoResult, _get_base_name(Bucket42, input.id, input.filename))
    /\ UNCHANGED <<fs, inodes, backend, pc, call, input>>

NextName == EscapeFilename \/ GetBaseName

SpecName == InitName /\ [][NextName]_vars

----------------------------------------------------------------------------
(* Lookups and stores of one (bucket, id, filename): Init draws the         *)
(* triple and the public root, the actions look the path up and store.      *)

\* longest raw file name looked up and stored under
MaxLookupLen == 1

\* a public root given as a URL prefix with a trailing slash
PubUrl == <<"h", "t", "t", "p", ":", "/", "/", "h", "/", "p", "u", "b", "/">>

\* a raw name whose stored form is truncated
LongRawName == Rep("a", 40) \o <<" ", ".">> \o Rep("b", 6)

PathInputs == [kind : {"lookup"}, id : Ids, filename : RawNamesUpTo(MaxLookupLen) \cup {NameA, LongRawName}]

InitPath ==
    /\ fs = RootWorld.fs
    /\ inodes = RootWorld.inodes
    /\ \E pub \in {PubPath, PubUrl} : backend = Backend("ready", pub, 18)
    /\ pc = [t \in Tasks |-> "idle"]
    /\ call = [t \in Tasks |-> NoCall]
    /\ ret = NoRet
    /\ input \in PathInputs

GetFilePath ==
    /\ backend.state = "ready"
    /\ ret' = Ret("get_file_path", "call", [NoArgs EXCEPT !.id = input.id, !.filename = input.filename],
                  NoResult, get_file_path(backend, Bucket42, input.id, input.filename))
    /\ UNCHANGED <<fs, inodes, backend, pc, call, input>>

GetFilePubUrl ==
    /\ backend.state = "ready"
    /\ ret' = Ret("get_file_pub_url", "call", [NoArgs EXCEPT !.id = input.id, !.filename = input.filename],
                  NoResult, get_file_pub_url(backend, Bucket42, input.id, input.filename))
    /\ UNCHANGED <<fs, inodes, backend, pc, call, input>>

NextPath ==
    \/ GetFilePath
    \/ GetFilePubUrl
    \/ \E f \in {SrcA, SrcB}, a \in BOOLEAN : StoreFile(1, input.id, f, input.filename, a, "")
    \/ \E a \in BOOLEAN :
          StoreHttpFile(1, input.id, [filename |-> input.filename, data |-> "H", is_file |-> TRUE], a)
    \/ SaveTo(1)
    \/ Resume(1)

SpecPath == InitPath /\ [][NextPath]_vars

----------------------------------------------------------------------------
(* Every umask: Init draws the configured umask, the actions store.         *)

\* the largest configured umask: 511 = 0o777
MaxUmask == 511

\* the root with the directories of DestA already made
TreeWorld == os_makedirs(RootWorld, os_path_dirname(DestA), 493).w

InitMode ==
    /\ \E w \in {RootWorld, TreeWorld} : fs = w.fs /\ inodes = w.inodes
    /\ \E u \in 0..MaxUmask : backend = Backend("ready", PubPath, u)
    /\ pc = [t \in Tasks |-> "idle"]
    /\ call = [t \in Tasks |-> NoCall]
    /\ ret = NoRet
    /\ input = NoInput

NextMode ==
    \/ \E f \in {SrcA, SrcB}, a \in BOOLEAN : StoreFile(1, Id1, f, NameA, a, "")
    \/ \E f \in HttpFiles : StoreHttpFile(1, Id1, f, TRUE)
    \/ SaveTo(1)
    \/ Resume(1)

SpecMode == InitMode /\ [][NextMode]_vars

----------------------------------------------------------------------------
(* Concurrent callers: every task may call the backend whenever it is not   *)
(* itself suspended in a call.                                              *)

InitTasks ==
    /\ fs = RootWorld.fs
    /\ inodes = RootWorld.inodes
    /\ backend = Backend("ready", PubPath, 18)
    /\ pc = [t \in Tasks |-> "idle"]
    /\ call = [t \in Tasks |-> NoCall]
    /\ ret = NoRet
    /\ input = NoInput

NextTasks ==
    \/ \E t \in Tasks, a \in BOOLEAN : StoreFile(t, Id1, SrcA, None, a, "")
    \/ \E t \in Tasks, f \in HttpFiles, a \in BOOLEAN : StoreHttpFile(t, Id1, f, a)
    \/ \E t \in Tasks : SaveTo(t)
    \/ \E t \in Tasks : Resume(t)

SpecTasks == InitTasks /\ [][NextTasks]_vars

----------------------------------------------------------------------------
(* Properties *)

\* a successful store has just completed: the last step ended a store call
\* with the permission fix
StoreDone ==
    /\ ret.op \in {"store_file", "store_http_file"}
    /\ ret.exc = NoExc
    /\ ret.trace # <<>>
    /\ ret.trace[Len(ret.trace)] = "chmod"

\* the stored name: the last component of the path _get_base_name returned
StoredName == os_path_basename(ret.value)

\* hex(id) + '_' + filename for the argument drawn
FinalName == input.id \o <<"_">> \o input.filename

\* the extension of s: what follows its last '.', s containing one
ExtensionOf(s) ==
    CHOOSE e \in {Suffix(s, k) : k \in 0..Len(s)} : ~Contains(e, ".") /\ EndsWith(s, <<".">> \o e)

\* C3: the stored name is finalName when that has at most 75 characters;
\* otherwise it has exactly 75 characters, ends with '.' + extension when
\* finalName has a '.' and 75 - len(extension) - 1 > 0, and is the first 75
\* characters of finalName in the remaining cases.
C3_BoundedName ==
    ret.op = "_get_base_name" =>
        IF Len(FinalName) <= 75 THEN StoredName = FinalName
        ELSE /\ Len(StoredName) = 75
             /\ IF Contains(FinalName, ".") /\ 75 - Len(ExtensionOf(FinalName)) - 1 > 0
                THEN EndsWith(StoredName, <<".">> \o ExtensionOf(FinalName))
                ELSE StoredName = SubSeq(FinalName, 1, 75)

\* C3 witness: a final name of 90 characters with a three-character
\* extension was cut to 75 characters that keep the extension.
C3_Witness ==
    /\ ret.op = "_get_base_name"
    /\ Len(FinalName) = 90
    /\ Contains(FinalName, ".")
    /\ ExtensionOf(FinalName) = <<"b", "b", "b">>
    /\ Len(StoredName) = 75
    /\ EndsWith(StoredName, <<".", "b", "b", "b">>)
    /\ StoredName # SubSeq(FinalName, 1, 75)

\* C10 (as claimed): the stored name begins with the 32 hex digits of the
\* object id followed by '_', whatever the lengths of the file name and of
\* its extension.
C10_PrefixKept ==
    ret.op = "_get_base_name" => StartsWith(StoredName, input.id \o <<"_">>)

\* the characters of [A-Za-z0-9_.-] among the characters of the model
AsciiSafe == {"a", "_", ".", "-"}

\* the characters of the model that are word characters, '-' or '.'
UnicodeSafe == {"a", "U+00E9", "_", ".", "-"}

\* s with every character outside safe replaced by '_'
Replaced(s, safe) == [i \in 1..Len(s) |-> IF s[i] \in safe THEN s[i] ELSE "_"]

\* the indices of s that are not part of its leading or trailing '-'
Core(s) == {i \in 1..Len(s) : (\E a \in 1..i : s[a] # "-") /\ (\E b \in i..Len(s) : s[b] # "-")}

\* v is s without its leading and trailing '-'
IsStripped(v, s) ==
    /\ Len(v) = Cardinality(Core(s))
    /\ \A k \in 1..Len(v) : \A lo \in Core(s) : (\A i \in Core(s) : lo <= i) => v[k] = s[lo + k - 1]

\* s is the end of a maximal run of characters outside safe
RunEnd(s, safe, i) == s[i] \notin safe /\ (i = Len(s) \/ s[i + 1] \in safe)

\* s with every maximal run of characters outside safe replaced by one '_'
Collapsed(s, safe) ==
    LET keep == {i \in 1..Len(s) : s[i] \in safe \/ RunEnd(s, safe, i)}
        nth(k) == CHOOSE i \in keep : Cardinality({j \in keep : j < i}) = k - 1
    IN [k \in 1..Cardinality(keep) |-> IF s[nth(k)] \in safe THEN s[nth(k)] ELSE "_"]

\* C4 (as claimed): every maximal run of characters outside [A-Za-z0-9_.-]
\* becomes one '_', leading and trailing '-' are stripped, and the result
\* holds characters of [A-Za-z0-9_.-] only.
C4_RunsCollapsed ==
    ret.op = "escape_filename" =>
        /\ IsStripped(ret.value, Collapsed(input.filename, AsciiSafe))
        /\ \A k \in 1..Len(ret.value) : ret.value[k] \in AsciiSafe

\* C4 (amended): every single character that is neither a Unicode word
\* character nor '-' nor '.' becomes its own '_' (a run of n gives n), then
\* leading and trailing '-' are stripped; the result holds word characters,
\* '-' and '.' only and neither starts nor ends with '-'.
C4_EachCharReplaced ==
    ret.op = "escape_filename" =>
        /\ IsStripped(ret.value, Replaced(input.filename, UnicodeSafe))
        /\ \A k \in 1..Len(ret.value) : ret.value[k] \in UnicodeSafe
        /\ ret.value # <<>> => ret.value[1] # "-" /\ ret.value[Len(ret.value)] # "-"

\* C4 witness: a run of two unsafe characters gave two '_', and the dashes
\* at the ends were stripped.
C4_Witness ==
    /\ ret.op = "escape_filename"
    /\ input.filename = <<"-", "/", " ", "-">>
    /\ ret.value = <<"_", "_">>

RECURSIVE BitAnd(_, _)
\* a & b for a, b >= 0
BitAnd(a, b) ==
    IF a = 0 \/ b = 0 THEN 0
    ELSE (IF a % 2 = 1 /\ b % 2 = 1 THEN 1 ELSE 0) + 2 * BitAnd(a \div 2, b \div 2)

\* the permission bits of the regular file that path p names
ModeAt(p) == inodes[Stat(World, p).ino].mode

\* the bytes of the regular file that path p names
DataAt(p) == inodes[Stat(World, p).ino].data

\* C7 (as claimed): the permission bits of a stored file are
\* 0o666 & ~umask (438 = 0o666, 4095 = 0o7777): no bit outside 0o666, no
\* bit of umask.
C7_MaskedMode ==
    StoreDone /\ os_path_isfile(World, ret.path) =>
        ModeAt(ret.path) = BitAnd(438, 4095 - backend.umask)

\* C8 (as claimed): a construction never succeeds with the root absent, a
\* failed one is reported as BackendError whatever made the root
\* unavailable, and with auto-create enabled a successful one leaves the
\* root in place.
C8_RootUnavailable ==
    ret.op = "__init__" =>
        /\ backend.state = "ready" => os_path_exists(World, RootPath)
        /\ backend.state # "ready" => ret.exc.type = "BackendError"
        /\ backend.state = "ready" <=> ret.exc = NoExc

\* the public root as a prefix: with a '/' at its end
PubPrefix == IF EndsWith(backend.pub_path, <<"/">>) THEN backend.pub_path ELSE backend.pub_path \o <<"/">>

\* C5: get_file_path and get_file_pub_url of the triple drawn return the
\* storage root and the public root followed by one and the same relative
\* path, whatever has been stored or looked up before, and a store of the
\* triple derives that path and leaves its file there.
C5_SameSuffix ==
    LET file_path == get_file_path(backend, Bucket42, input.id, input.filename)
        pub_url == get_file_pub_url(backend, Bucket42, input.id, input.filename)
        root == backend.path \o <<"/">>
    IN input.kind = "lookup" =>
        /\ StartsWith(file_path, root)
        /\ pub_url = PubPrefix \o Suffix(file_path, Len(root))
        /\ ret.op = "get_file_path" => ret.value = file_path
        /\ ret.op = "get_file_pub_url" => ret.value = PubPrefix \o Suffix(file_path, Len(root))
        /\ ret.op \in {"store_file", "store_http_file"} /\ ret.path # NoPath => ret.path = file_path
        /\ StoreDone => os_path_isfile(World, file_path)

\* C5 witness: a file was stored under a name that is sanitized and
\* truncated, at the path get_file_path names, the public root being a URL.
C5_Witness ==
    /\ input.kind = "lookup"
    /\ input.filename = LongRawName
    /\ backend.pub_path = PubUrl
    /\ StoreDone
    /\ ret.path = get_file_path(backend, Bucket42, input.id, input.filename)
    /\ Len(os_path_basename(ret.path)) = 75
    /\ os_path_isfile(World, ret.path)

\* the step is one of the backend's (the owner of a source file editing it
\* leaves ret, fs and pc as they are)
BackendStep == ret' # ret \/ fs' # fs \/ pc' # pc

\* the step is the call of a store operation that derived a destination
\* which a regular file or a symbolic link occupied
StoreCallOnOccupied(ops) ==
    /\ BackendStep
    /\ ret'.step = "call"
    /\ ret'.op \in ops
    /\ ret'.path # NoPath
    /\ Lstat(World, ret'.path).type \in {"file", "link"}

\* C1 (as claimed): a store call with allow_rewrite=False whose destination
\* is occupied by a regular file or a symbolic link (dangling ones
\* included) fails with BackendError (name collision) and leaves every
\* directory entry and every file's content as it was.
C1_CollisionRejected ==
    [][StoreCallOnOccupied({"store_file", "store_http_file"}) /\ ~ret'.args.allow_rewrite
          => /\ ret'.exc = BackendError("file names collision")
             /\ fs' = fs
             /\ inodes' = inodes]_vars

\* an entry of the trace tr among first comes before one among then
Before(tr, first, then) == \E i, j \in 1..Len(tr) : i < j /\ tr[i] \in first /\ tr[j] \in then

\* C2 (as claimed): a store_file call with allow_rewrite=True whose
\* destination is occupied by a regular file or a symbolic link (dangling
\* ones included) succeeds, the filesystem raising no error of its own: the
\* old entry is removed before the new one is written, and the destination
\* ends as a regular file holding the bytes of the source.
C2_RewriteReplaces ==
    [][StoreCallOnOccupied({"store_file"}) /\ ret'.args.allow_rewrite /\ ret'.exc # OSError("EPERM")
          => /\ ret'.exc = NoExc
             /\ Before(ret'.trace, {"unlink", "remove"}, {"link"})
             /\ Lstat([fs |-> fs', inodes |-> inodes'], ret'.path).type = "file"
             /\ inodes'[fs'[ret'.path].ino].data = ret'.args.data]_vars

InTrace(x) == \E i \in 1..Len(ret.trace) : ret.trace[i] = x

\* C6: in store_file a copy is made exactly when the link fails because
\* source and destination are on different devices; the call then succeeds
\* and leaves at the destination a regular file of its own holding the
\* bytes the source had, whatever happens to the source afterwards.  When
\* the link fails with another error, that error is raised as it is, and
\* neither copy nor permission fix is made.
C6_CrossDeviceCopy ==
    ret.op = "store_file" =>
        /\ InTrace("copy") <=>
              /\ InTrace("link")
              /\ Dev(ret.value) # Dev(ret.path)
              /\ ret.exc # OSError("EEXIST")
        /\ InTrace("copy") =>
              /\ ret.exc = NoExc
              /\ ret.trace[Len(ret.trace)] = "chmod"
              /\ Lstat(World, ret.path).type = "file"
              /\ DataAt(ret.path) = ret.args.data
              /\ os_path_isfile(World, ret.value) => Stat(World, ret.value).ino # Stat(World, ret.path).ino
        /\ InTrace("link") /\ ret.exc # NoExc =>
              /\ ret.exc.type = "OSError"
              /\ ret.exc.arg \in {"EEXIST", "EPERM"}
              /\ ret.trace[Len(ret.trace)] = "link"
              /\ ~InTrace("copy")
              /\ ~InTrace("chmod")
              /\ Lstat(World, ret.path).type # "file"

\* C6 witness: a file was stored by the copy, its source was rewritten
\* afterwards, and the stored file still holds the bytes it was stored with.
C6_Witness ==
    /\ ret.op = "store_file"
    /\ InTrace("copy")
    /\ ret.exc = NoExc
    /\ ret.value = SrcB
    /\ ret.args.data = "B"
    /\ DataAt(SrcB) = "M"
    /\ DataAt(ret.path) = "B"

\* C9 (as claimed): no store call runs on a destination between the
\* collision check and the permission fix of another task's store call on
\* that destination.
C9_NoInterleaving ==
    \A t \in Tasks : pc[t] # "idle" =>
        /\ ~(ret.op = "store_file" /\ ret.path = call[t].path)
        /\ \A u \in Tasks \ {t} : ~(pc[u] # "idle" /\ call[u].path = call[t].path)

\* C9 (amended): store_file never stands mid-operation: a task that is not
\* idle is inside store_http_file, suspended at the yield of
\* file.save_to(path) or waiting to be resumed after it.
C9_OnlyHttpSuspends ==
    /\ \A t \in Tasks :
          /\ pc[t] \in {"idle", "save_to", "after_save"}
          /\ pc[t] # "idle" => call[t].file.is_file /\ call[t].path # NoPath
    /\ ret.op = "store_file" => ret.step = "call"

\* C9 witness: while a task is suspended in store_http_file between its
\* collision check and its write, another task's store_file has stored a
\* file at the same destination.
C9_Witness ==
    \E t \in Tasks :
        /\ pc[t] = "save_to"
        /\ ret.op = "store_file"
        /\ ret.exc = NoExc
        /\ ret.path = call[t].path
        /\ os_path_isfile(World, call[t].path)

\* C11 (as claimed): after any store_file call, successful or failed, the
\* file at the source path still exists as the same regular file, with the
\* content and the permission bits it had before the call.
C11_SourceUnchanged ==
    [][BackendStep /\ ret'.op = "store_file" /\ ret'.step = "call" /\ os_path_isfile(World, ret'.value)
          => /\ os_path_isfile([fs |-> fs', inodes |-> inodes'], ret'.value)
             /\ fs'[ret'.value] = fs[ret'.value]
             /\ inodes'[fs'[ret'.value].ino].data = inodes[fs[ret'.value].ino].data
             /\ inodes'[fs'[ret'.value].ino].mode = inodes[fs[ret'.value].ino].mode]_vars

====
